---- MODULE Spec2Model ----
(***************************************************************************)
(* Model of src/app.py, the Global Superstore dashboard script.            *)
(*                                                                         *)
(* The script is re-executed from top to bottom on every user interaction. *)
(* One execution is modelled as a walk of pc through the script's          *)
(* sections; the files on disk, the widgets' values and the session state  *)
(* live across executions.                                                 *)
(*                                                                         *)
(* Numbers: Sales and Profit are integers (an amount in whole currency     *)
(* units), Discount is an integer percentage (0.1 is 10), so that sums and *)
(* bin-edge comparisons are exact.  A quotient is kept as an unreduced     *)
(* fraction <<numerator, denominator>>.                                    *)
(* A cell that may be missing is a tuple: <<>> is the missing cell (NaN /  *)
(* NaT), <<v>> a present number.  The text of a date cell is the tuple of  *)
(* its numeric components in the order they are written (15/01/2020 is     *)
(* <<15, 1, 2020>>); a cell that is not made of three components is text   *)
(* that is no date.  A parsed date is <<year, month, day>>.                *)
(***************************************************************************)
EXTENDS Integers, Sequences, FiniteSets, TLC

\* Longest uploaded dataset, in rows.
MaxRows == 2

----------------------------------------------------------------------------
\* Generic helpers

SeqToSet(s) == {s[i] : i \in DOMAIN s}

RECURSIVE SumSeq(_)
SumSeq(s) == IF s = <<>> THEN 0 ELSE Head(s) + SumSeq(Tail(s))

MinOf(S) == CHOOSE x \in S : \A y \in S : x <= y
MaxOf(S) == CHOOSE x \in S : \A y \in S : x >= y

\* The sequences over S of length at most n.
SeqsUpTo(S, n) == UNION {[1..k -> S] : k \in 0..n}

----------------------------------------------------------------------------
\* Values of Python and pandas

None == "None"          \* Python's None
NaT == <<>>             \* pandas' missing timestamp
NaN == <<>>             \* pandas' missing number in a nullable cell
NoBin == "NaN"          \* pandas' missing category of pd.cut

\* A DataFrame: its column labels in order, and its rows in order, each row a
\* function from the column labels to the cells.
DataFrame(columns, rows) == [columns |-> columns, rows |-> rows]

Column(frame, col) == [i \in DOMAIN frame.rows |-> frame.rows[i][col]]

\* Series.unique(): the distinct values of a column.
unique(frame, col) == {frame.rows[i][col] : i \in DOMAIN frame.rows}

\* Series.sum()
sum(frame, col) == SumSeq(Column(frame, col))

\* Series.nunique()
nunique(frame, col) == Cardinality(unique(frame, col))

HasColumn(frame, col) == col \in SeqToSet(frame.columns)

\* df[mask]: the rows at which the boolean series mask holds, in order.
RECURSIVE BoolIndex(_, _)
BoolIndex(rows, mask) ==
    IF rows = <<>> THEN <<>>
    ELSE LET rest == BoolIndex(Tail(rows), Tail(mask))
         IN  IF Head(mask) THEN <<Head(rows)>> \o rest ELSE rest

----------------------------------------------------------------------------
\* The datasets the model loads

RequiredColumns ==
    << "Region", "Category", "Sub-Category", "State", "Customer Name",
       "Product Name", "Order ID", "Order Date", "Ship Date", "Sales",
       "Profit", "Discount", "Postal Code" >>

BaseRow ==
    [c \in SeqToSet(RequiredColumns) |->
        CASE c = "Region"        -> "East"
          [] c = "Category"      -> "Furniture"
          [] c = "Sub-Category"  -> "Chairs"
          [] c = "State"         -> "California"
          [] c = "Customer Name" -> "Ann"
          [] c = "Product Name"  -> "Desk Chair"
          [] c = "Order ID"      -> "O-1"
          [] c = "Order Date"    -> <<15, 1, 2020>>
          [] c = "Ship Date"     -> <<18, 1, 2020>>
          [] c = "Sales"         -> 100
          [] c = "Profit"        -> 10
          [] c = "Discount"      -> 25
          [] c = "Postal Code"   -> <<90001>>]

\* BaseRow with the cells of `changes` (a function from some columns) replaced.
Row(changes) == changes @@ BaseRow

\* Rows that differ in what the filters read.
FilterPool ==
    { Row("Region" :> "East" @@ "Category" :> "Furniture" @@ "Sub-Category" :> "Chairs"
            @@ "State" :> "California"),
      Row("Region" :> "West" @@ "Category" :> "Furniture" @@ "Sub-Category" :> "Tables"
            @@ "State" :> "Texas" @@ "Sales" :> 50),
      Row("Region" :> "East" @@ "Category" :> "Technology" @@ "Sub-Category" :> "Phones"
            @@ "State" :> "Texas" @@ "Sales" :> 200),
      Row("Region" :> "West" @@ "Category" :> "Technology" @@ "Sub-Category" :> "Chairs"
            @@ "State" :> "Ontario" @@ "Sales" :> 30) }

\* Rows that differ in what the KPIs and the group sums read.
KpiPool ==
    { Row("Region" :> "East" @@ "Sales" :> 100 @@ "Profit" :> 10),
      Row("Region" :> "East" @@ "Sales" :> 50 @@ "Profit" :> (0 - 5)
            @@ "Customer Name" :> "Bob"),
      Row("Region" :> "West" @@ "Sales" :> 200 @@ "Profit" :> 40
            @@ "Order ID" :> "O-2" @@ "Product Name" :> "Phone"),
      Row("Region" :> "West" @@ "Sales" :> 0 @@ "Profit" :> 5
            @@ "Order ID" :> "O-3") }

\* Rows that differ in what the cleaning step and the monthly trend read.
DatePool ==
    { Row("Order Date" :> <<15, 1, 2020>>),
      Row("Order Date" :> <<3, 3, 2020>> @@ "Sales" :> 50),
      Row("Order Date" :> <<7>>),
      Row("Order Date" :> <<31, 2, 2020>>),
      Row("Postal Code" :> NaN),
      Row("Postal Code" :> <<0>>) }

\* Rows that differ in what the discount analysis reads.
DiscountPool ==
    { Row("Discount" :> 0),
      Row("Discount" :> 10 @@ "Profit" :> 20),
      Row("Discount" :> 15 @@ "Profit" :> (0 - 5)),
      Row("Discount" :> 40 @@ "Profit" :> 7) }

Pools == {FilterPool, KpiPool, DatePool, DiscountPool}

\* frame without column col
DropColumn(frame, col) ==
    DataFrame(SelectSeq(frame.columns, LAMBDA c : c # col),
              [i \in DOMAIN frame.rows |->
                  [c \in (DOMAIN frame.rows[i]) \ {col} |-> frame.rows[i][c]]])

\* The bundled file's content.
DefaultData ==
    DataFrame(RequiredColumns,
              << Row("Region" :> "East" @@ "Sales" :> 100 @@ "Profit" :> 10),
                 Row("Region" :> "East" @@ "Sales" :> 50 @@ "Profit" :> (0 - 5)
                       @@ "Customer Name" :> "Bob"),
                 Row("Region" :> "West" @@ "Sales" :> 200 @@ "Profit" :> 40
                       @@ "Order ID" :> "O-2" @@ "State" :> "Texas") >>)

\* The files a user may upload: every sequence of at most MaxRows rows of one
\* pool with all the required columns, and the bundled content with one
\* required column left out.
Datasets ==
    UNION { {DataFrame(RequiredColumns, rows) : rows \in SeqsUpTo(P, MaxRows)} : P \in Pools }
    \cup {DropColumn(DefaultData, c) : c \in SeqToSet(RequiredColumns)}

\* An uploaded file: its name's extension and, when it can be read, its content.
Unreadable == DataFrame(<<"unreadable">>, <<>>)
UploadedFiles ==
    {[name |-> "csv", content |-> d] : d \in Datasets}
    \cup {[name |-> n, content |-> Unreadable] : n \in {"csv", "xlsx"}}
    \cup {[name |-> "xlsx", content |-> DefaultData]}
NoUpload == [name |-> None, content |-> Unreadable]

----------------------------------------------------------------------------
\* Data cleaning (section 3 of the script)

\* df['Postal Code'].fillna(0)
fillna(frame, col) ==
    [frame EXCEPT !.rows =
        [i \in DOMAIN frame.rows |->
            [frame.rows[i] EXCEPT ![col] = IF @ = NaN THEN <<0>> ELSE @]]]

IsLeap(y) == (y % 4 = 0 /\ y % 100 # 0) \/ y % 400 = 0

DaysInMonth(m, y) ==
    IF m = 2 THEN (IF IsLeap(y) THEN 29 ELSE 28)
    ELSE IF m \in {4, 6, 9, 11} THEN 30 ELSE 31

\* pd.to_datetime(cell, dayfirst=True, errors='coerce') of one cell: the text
\* day/month/year is the date <<year, month, day>>; anything that is not a
\* calendar date is NaT.
ParseDayFirst(cell) ==
    IF /\ Len(cell) = 3
       /\ cell[2] \in 1..12
       /\ cell[1] \in 1..DaysInMonth(cell[2], cell[3])
    THEN <<cell[3], cell[2], cell[1]>>
    ELSE NaT

to_datetime(frame, col) ==
    [frame EXCEPT !.rows =
        [i \in DOMAIN frame.rows |->
            [frame.rows[i] EXCEPT ![col] = ParseDayFirst(@)]]]

\* DataFrame.drop_duplicates(): a row equal in every column to a row already
\* kept is dropped; the first occurrence stays.
RECURSIVE DropDuplicateRows(_, _)
DropDuplicateRows(rows, kept) ==
    IF rows = <<>> THEN kept
    ELSE IF Head(rows) \in SeqToSet(kept)
         THEN DropDuplicateRows(Tail(rows), kept)
         ELSE DropDuplicateRows(Tail(rows), Append(kept, Head(rows)))

drop_duplicates(frame) == [frame EXCEPT !.rows = DropDuplicateRows(frame.rows, <<>>)]

\* The cells after lines 45-50: each step is skipped when its column is absent.
CleanCells(frame) ==
    LET a == IF HasColumn(frame, "Postal Code") THEN fillna(frame, "Postal Code") ELSE frame
        b == IF HasColumn(a, "Order Date") THEN to_datetime(a, "Order Date") ELSE a
        c == IF HasColumn(b, "Ship Date") THEN to_datetime(b, "Ship Date") ELSE b
    IN  c

\* The duplicates dropped before the cells are cleaned.
CleanDataDedupFirst(frame) == CleanCells(drop_duplicates(frame))

\* Lines 45-52.
CleanData(frame) == drop_duplicates(CleanCells(frame))

----------------------------------------------------------------------------
\* Filtering (section 4)

\* df[col].isin(values)
isin(frame, col, values) == [i \in DOMAIN frame.rows |-> frame.rows[i][col] \in values]

\* The mask without its Sub-Category series.
FilterMaskNoSubCategory(frame, regs, cats, subs) ==
    LET r == isin(frame, "Region", regs)
        c == isin(frame, "Category", cats)
    IN  [i \in DOMAIN frame.rows |-> r[i] /\ c[i]]

\* The conjunction of three boolean series, lines 67-69.
FilterMask(frame, regs, cats, subs) ==
    LET r == isin(frame, "Region", regs)
        c == isin(frame, "Category", cats)
        s == isin(frame, "Sub-Category", subs)
    IN  [i \in DOMAIN frame.rows |-> r[i] /\ c[i] /\ s[i]]

FilterData(frame, regs, cats, subs) ==
    [frame EXCEPT !.rows = BoolIndex(frame.rows, FilterMask(frame, regs, cats, subs))]

----------------------------------------------------------------------------
\* Aggregations (sections 5-11)

\* The quotient without its guard.
ProfitMarginUnguarded(profit, sales) == <<profit * 100, sales>>

\* total_profit / total_sales * 100 if total_sales != 0 else 0, as a fraction.
ProfitMargin(profit, sales) == IF sales # 0 THEN <<profit * 100, sales>> ELSE <<0, 1>>

\* The rows of frame whose cell in column key is k.
Group(frame, key, k) ==
    [frame EXCEPT !.rows = BoolIndex(frame.rows, isin(frame, key, {k}))]

\* The groups counted instead of summed.
GroupCount(frame, key, val) ==
    {[k |-> k, v |-> Len(Group(frame, key, k).rows)] : k \in unique(frame, key)}

\* frame.groupby(key)[val].sum().reset_index(): one record per key of frame.
GroupSum(frame, key, val) ==
    {[k |-> k, v |-> sum(Group(frame, key, k), val)] : k \in unique(frame, key)}

\* .sort_values(ascending=False).head(n): the tables of the n largest sums; the
\* order among equal sums is not determined.
TopN(table, n) ==
    {t \in SUBSET table :
        /\ Cardinality(t) = IF Cardinality(table) < n THEN Cardinality(table) ELSE n
        /\ \A x \in t, y \in table \ t : x.v >= y.v}

\* The calendar month of a parsed date, counted from year 0.
MonthIndex(date) == date[1] * 12 + (date[2] - 1)

\* A plain group-by on the month: only the months that have rows.
MonthlySalesOnlyPresent(frame) ==
    LET dated == {i \in DOMAIN frame.rows : frame.rows[i]["Order Date"] # NaT}
    IN  {[month |-> m,
          Sales |-> SumSeq(Column(
              [frame EXCEPT !.rows = BoolIndex(frame.rows,
                  [i \in DOMAIN frame.rows |->
                      /\ i \in dated
                      /\ MonthIndex(frame.rows[i]["Order Date"]) = m])],
              "Sales"))]
         : m \in {MonthIndex(frame.rows[i]["Order Date"]) : i \in dated}}

\* filtered_df.groupby(pd.Grouper(key='Order Date', freq='M'))['Sales'].sum():
\* the rows whose date is NaT belong to no bin; the bins are all the months
\* from the first dated row's to the last dated row's, each with the sum of
\* the Sales of its rows, which is 0 for a month that has none.
MonthlySales(frame) ==
    LET dated == {i \in DOMAIN frame.rows : frame.rows[i]["Order Date"] # NaT}
        months == {MonthIndex(frame.rows[i]["Order Date"]) : i \in dated}
    IN  IF dated = {} THEN {}
        ELSE {[month |-> m,
               Sales |-> SumSeq(Column(
                   [frame EXCEPT !.rows = BoolIndex(frame.rows,
                       [i \in DOMAIN frame.rows |->
                           /\ i \in dated
                           /\ MonthIndex(frame.rows[i]["Order Date"]) = m])],
                   "Sales"))]
              : m \in MinOf(months)..MaxOf(months)}

\* bins and labels of pd.cut, lines 217-218 (Discount in percent)
CutBins == <<0, 10, 20, 30, 40, 100>>
CutLabels == <<"0-10%", "10-20%", "20-30%", "30-40%", "40%+">>

\* pd.cut(x, bins, labels) with its defaults right=True, include_lowest=False:
\* bin i is the interval (bins[i], bins[i+1]], and a value in no bin is NaN.
cut(x) ==
    IF \E i \in DOMAIN CutLabels : CutBins[i] < x /\ x <= CutBins[i + 1]
    THEN CutLabels[CHOOSE i \in DOMAIN CutLabels : CutBins[i] < x /\ x <= CutBins[i + 1]]
    ELSE NoBin

\* filtered_df['Discount Bin'] = pd.cut(filtered_df['Discount'], ...): the
\* frame itself gains the column.
AddDiscountBin(frame) ==
    DataFrame(Append(frame.columns, "Discount Bin"),
              [i \in DOMAIN frame.rows |->
                  ("Discount Bin" :> cut(frame.rows[i]["Discount"])) @@ frame.rows[i]])

Ascending(a, b) == a < b

\* The median of a non-empty sequence of numbers, as a fraction.
Median(xs) ==
    LET s == SortSeq(xs, Ascending)
        n == Len(s)
    IN  IF n % 2 = 1 THEN <<s[(n + 1) \div 2], 1>>
        ELSE <<s[n \div 2] + s[n \div 2 + 1], 2>>

\* groupby("Discount Bin")["Profit"].agg(count, mean, median, std, min, max):
\* a row whose bin is NaN is in no group.  Mean and Median are fractions,
\* Std_Dev is given by its square, the sample variance; a statistic of too
\* few values is NaN.
SummaryStats(frame) ==
    [label \in SeqToSet(CutLabels) |->
        LET ps == Column(Group(frame, "Discount Bin", label), "Profit")
            n == Len(ps)
            sq == [i \in DOMAIN ps |-> ps[i] * ps[i]]
        IN  [Count |-> n,
             Mean |-> IF n = 0 THEN NaN ELSE <<SumSeq(ps), n>>,
             Median |-> IF n = 0 THEN NaN ELSE Median(ps),
             Std_Dev |-> IF n < 2 THEN NaN
                         ELSE <<n * SumSeq(sq) - SumSeq(ps) * SumSeq(ps), n * (n - 1)>>,
             Min |-> IF n = 0 THEN NaN ELSE <<MinOf(SeqToSet(ps))>>,
             Max |-> IF n = 0 THEN NaN ELSE <<MaxOf(SeqToSet(ps))>>]]

----------------------------------------------------------------------------
\* Sales by state map (lines 283-386)

\* state_abbrev, lines 290-304
state_abbrev ==
    "Alabama" :> "AL" @@ "Alaska" :> "AK" @@ "Arizona" :> "AZ" @@ "Arkansas" :> "AR" @@
    "California" :> "CA" @@ "Colorado" :> "CO" @@ "Connecticut" :> "CT" @@ "Delaware" :> "DE" @@
    "Florida" :> "FL" @@ "Georgia" :> "GA" @@ "Hawaii" :> "HI" @@ "Idaho" :> "ID" @@
    "Illinois" :> "IL" @@ "Indiana" :> "IN" @@ "Iowa" :> "IA" @@ "Kansas" :> "KS" @@
    "Kentucky" :> "KY" @@ "Louisiana" :> "LA" @@ "Maine" :> "ME" @@ "Maryland" :> "MD" @@
    "Massachusetts" :> "MA" @@ "Michigan" :> "MI" @@ "Minnesota" :> "MN" @@ "Mississippi" :> "MS" @@
    "Missouri" :> "MO" @@ "Montana" :> "MT" @@ "Nebraska" :> "NE" @@ "Nevada" :> "NV" @@
    "New Hampshire" :> "NH" @@ "New Jersey" :> "NJ" @@ "New Mexico" :> "NM" @@ "New York" :> "NY" @@
    "North Carolina" :> "NC" @@ "North Dakota" :> "ND" @@ "Ohio" :> "OH" @@ "Oklahoma" :> "OK" @@
    "Oregon" :> "OR" @@ "Pennsylvania" :> "PA" @@ "Rhode Island" :> "RI" @@ "South Carolina" :> "SC" @@
    "South Dakota" :> "SD" @@ "Tennessee" :> "TN" @@ "Texas" :> "TX" @@ "Utah" :> "UT" @@
    "Vermont" :> "VT" @@ "Virginia" :> "VA" @@ "Washington" :> "WA" @@ "West Virginia" :> "WV" @@
    "Wisconsin" :> "WI" @@ "Wyoming" :> "WY"

\* The keys of state_coords, lines 308-326.
state_coords ==
    {
      "CA", "TX", "NY", "FL", "IL", "PA", "OH", "GA", "NC", "MI",
      "NJ", "VA", "WA", "AZ", "MA", "TN", "IN", "MO", "WI", "MN",
      "CO", "SC", "AL", "KY", "OR", "OK", "CT", "IA", "KS", "NV",
      "AR", "MS", "UT", "NE", "NM", "WV", "ID", "ME", "NH", "MT",
      "RI", "DE", "SD", "ND", "VT", "WY", "AK", "HI", "MD" }

\* sales_state with its 'State Abbrev' column: Series.map gives NaN for a
\* state that is no key of the table.
SalesState(frame) ==
    {[State |-> g.k, Sales |-> g.v,
      Abbrev |-> IF g.k \in DOMAIN state_abbrev THEN state_abbrev[g.k] ELSE NoBin]
     : g \in GroupSum(frame, "State", "Sales")}

\* The figure: the locations the choropleth colours, and the text labels added
\* by the loop of lines 344-359.
FigMap(states) ==
    [locations |-> {r.Abbrev : r \in {x \in states : x.Abbrev # NoBin}},
     labels |-> {r.Abbrev : r \in {x \in states : x.Abbrev # NoBin /\ x.Abbrev \in state_coords}}]

NoFigure == [locations |-> {}, labels |-> {}]

----------------------------------------------------------------------------
\* Download (lines 393-399)

\* One cell as to_csv writes it: a missing value is the empty text.
CsvCell(col, v) ==
    IF col \in {"Order Date", "Ship Date", "Postal Code"}
    THEN (IF v = <<>> THEN "" ELSE v)
    ELSE IF col = "Discount Bin" THEN (IF v = NoBin THEN "" ELSE v)
    ELSE v

\* filtered_df.to_csv(index=False): the header line, then one line per row
\* with the cells in column order.
to_csv(frame) ==
    [header |-> frame.columns,
     lines |-> [i \in DOMAIN frame.rows |->
                  [j \in DOMAIN frame.columns |->
                      CsvCell(frame.columns[j], frame.rows[i][frame.columns[j]])]]]

NoCsv == [header |-> <<>>, lines |-> <<>>]

----------------------------------------------------------------------------
\* State

VARIABLES
    default_file,     \* Global_Superstore2.csv on disk: "missing", "unreadable" or "ok"
    uploaded_file,    \* the value of the file_uploader widget
    selected_state,   \* st.session_state.selected_state, "unset" while the key is absent
    clicked,          \* the location of the user's last click on the map, or None
    pc,               \* the section of the script the execution is at
    message,          \* the last status message the script showed
    df, regions, categories, sub_categories, filtered_df,
    total_sales, total_profit, total_orders, profit_margin,
    top_customers, top_products, sales_time, sales_region, profit_category,
    summary_stats, sales_state, fig_map, csv

session == <<default_file, uploaded_file, selected_state, clicked>>
widgets == <<regions, categories, sub_categories>>
kpis == <<total_sales, total_profit, total_orders, profit_margin>>
tables == <<top_customers, top_products, sales_time, sales_region, profit_category,
            summary_stats, sales_state, fig_map>>
vars == <<session, pc, message, df, widgets, filtered_df, kpis, tables, csv>>

EmptyFrame == DataFrame(<<>>, <<>>)
NoStats == [label \in {} |-> 0]

\* The script's variables before the script has assigned them.
ScriptStart ==
    /\ pc = "load_default"
    /\ message = ""
    /\ df = EmptyFrame
    /\ regions = {} /\ categories = {} /\ sub_categories = {}
    /\ filtered_df = EmptyFrame
    /\ total_sales = 0 /\ total_profit = 0 /\ total_orders = 0
    /\ profit_margin = <<0, 1>>
    /\ top_customers = {} /\ top_products = {} /\ sales_time = {}
    /\ sales_region = {} /\ profit_category = {}
    /\ summary_stats = NoStats
    /\ sales_state = {} /\ fig_map = NoFigure
    /\ csv = NoCsv

Init ==
    /\ default_file \in {"missing", "unreadable", "ok"}
    /\ uploaded_file = NoUpload
    /\ selected_state = "unset"
    /\ clicked = None
    /\ ScriptStart

\* The columns each section reads without testing for them first.
Needs(section) ==
    CASE section = "sidebar"         -> {"Region", "Category", "Sub-Category"}
      [] section = "kpis"            -> {"Sales", "Profit", "Order ID"}
      [] section = "top_customers"   -> {"Customer Name", "Sales"}
      [] section = "top_products"    -> {"Product Name", "Sales"}
      [] section = "sales_time"      -> IF HasColumn(filtered_df, "Order Date")
                                        THEN {"Sales"} ELSE {}
      [] section = "sales_region"    -> {"Region", "Sales"}
      [] section = "profit_category" -> {"Category", "Profit"}
      [] section = "map"             -> IF HasColumn(filtered_df, "State")
                                        THEN {"Sales"} ELSE {}
      [] OTHER                       -> {}

\* The frame a section reads.
FrameAt(section) == IF section = "sidebar" THEN df ELSE filtered_df

CanRead(section) == Needs(section) \subseteq SeqToSet(FrameAt(section).columns)

----------------------------------------------------------------------------
\* Sections 1 and 2: loading

\* Lines 15-18.
LoadDefault ==
    /\ pc = "load_default"
    /\ default_file = "ok"
    /\ df' = DefaultData
    /\ message' = "Using default dataset"
    /\ pc' = "upload"
    /\ UNCHANGED <<session, widgets, filtered_df, kpis, tables, csv>>

\* Lines 19-21.
DefaultLoadError ==
    /\ pc = "load_default"
    /\ default_file = "unreadable"
    /\ message' = "Error loading default dataset"
    /\ pc' = "stopped"
    /\ UNCHANGED <<session, df, widgets, filtered_df, kpis, tables, csv>>

\* Lines 22-24.
DefaultNotFound ==
    /\ pc = "load_default"
    /\ default_file = "missing"
    /\ message' = "Default dataset not found"
    /\ pc' = "stopped"
    /\ UNCHANGED <<session, df, widgets, filtered_df, kpis, tables, csv>>

\* Lines 29-31 with no file in the uploader.
NoUploadedFile ==
    /\ pc = "upload"
    /\ uploaded_file = NoUpload
    /\ pc' = "clean"
    /\ UNCHANGED <<session, message, df, widgets, filtered_df, kpis, tables, csv>>

\* Lines 31-37: read_csv or read_excel by the name's ending.
LoadUploaded ==
    /\ pc = "upload"
    /\ uploaded_file # NoUpload
    /\ uploaded_file.content # Unreadable
    /\ df' = uploaded_file.content
    /\ message' = "Loaded dataset"
    /\ pc' = "clean"
    /\ UNCHANGED <<session, widgets, filtered_df, kpis, tables, csv>>

\* Lines 38-40.
UploadLoadError ==
    /\ pc = "upload"
    /\ uploaded_file # NoUpload
    /\ uploaded_file.content = Unreadable
    /\ message' = "Error loading uploaded dataset"
    /\ pc' = "stopped"
    /\ UNCHANGED <<session, df, widgets, filtered_df, kpis, tables, csv>>

----------------------------------------------------------------------------
\* Section 3: cleaning

Clean ==
    /\ pc = "clean"
    /\ df' = CleanData(df)
    /\ pc' = "sidebar"
    /\ UNCHANGED <<session, message, widgets, filtered_df, kpis, tables, csv>>

----------------------------------------------------------------------------
\* Section 4: filters

\* Lines 58-60: each multiselect returns the user's selection among its options.
SidebarFilters ==
    /\ pc = "sidebar"
    /\ CanRead("sidebar")
    /\ regions' \in SUBSET unique(df, "Region")
    /\ categories' \in SUBSET unique(df, "Category")
    /\ sub_categories' \in SUBSET unique(df, "Sub-Category")
    /\ pc' = "session"
    /\ UNCHANGED <<session, message, df, filtered_df, kpis, tables, csv>>

\* Lines 63-64.
InitSession ==
    /\ pc = "session"
    /\ selected_state' = IF selected_state = "unset" THEN None ELSE selected_state
    /\ pc' = "filter"
    /\ UNCHANGED <<default_file, uploaded_file, clicked, message, df, widgets,
                   filtered_df, kpis, tables, csv>>

\* Lines 67-69.
Filter ==
    /\ pc = "filter"
    /\ filtered_df' = FilterData(df, regions, categories, sub_categories)
    /\ pc' = "kpis"
    /\ UNCHANGED <<session, message, df, widgets, kpis, tables, csv>>

\* A section indexes a column the frame does not have: the KeyError ends the run.
KeyError ==
    /\ pc \in {"sidebar", "kpis", "top_customers", "top_products", "sales_time",
               "sales_region", "profit_category", "map"}
    /\ ~CanRead(pc)
    /\ message' = "KeyError"
    /\ pc' = "error"
    /\ UNCHANGED <<session, df, widgets, filtered_df, kpis, tables, csv>>

----------------------------------------------------------------------------
\* Sections 5-11: aggregations

\* Lines 75-78.
KPIs ==
    /\ pc = "kpis"
    /\ CanRead("kpis")
    /\ total_sales' = sum(filtered_df, "Sales")
    /\ total_profit' = sum(filtered_df, "Profit")
    /\ total_orders' = nunique(filtered_df, "Order ID")
    /\ profit_margin' = ProfitMargin(total_profit', total_sales')
    /\ pc' = "top_customers"
    /\ UNCHANGED <<session, message, df, widgets, filtered_df, tables, csv>>

\* Line 90.
TopCustomers ==
    /\ pc = "top_customers"
    /\ CanRead("top_customers")
    /\ top_customers' \in TopN(GroupSum(filtered_df, "Customer Name", "Sales"), 5)
    /\ pc' = "top_products"
    /\ UNCHANGED <<session, message, df, widgets, filtered_df, kpis, top_products,
                   sales_time, sales_region, profit_category, summary_stats,
                   sales_state, fig_map, csv>>

\* Line 116.
TopProducts ==
    /\ pc = "top_products"
    /\ CanRead("top_products")
    /\ top_products' \in TopN(GroupSum(filtered_df, "Product Name", "Sales"), 5)
    /\ pc' = "sales_time"
    /\ UNCHANGED <<session, message, df, widgets, filtered_df, kpis, top_customers,
                   sales_time, sales_region, profit_category, summary_stats,
                   sales_state, fig_map, csv>>

\* Every row of the frame has a NaT order date.
AllNaT(frame) ==
    /\ frame.rows # <<>>
    /\ \A i \in DOMAIN frame.rows : frame.rows[i]["Order Date"] = NaT

\* Lines 141-142.  The section is skipped when the column is absent.
SalesTrend ==
    /\ pc = "sales_time"
    /\ CanRead("sales_time")
    /\ sales_time' = IF HasColumn(filtered_df, "Order Date")
                     THEN MonthlySales(filtered_df) ELSE sales_time
    /\ pc' = "sales_region"
    /\ UNCHANGED <<session, message, df, widgets, filtered_df, kpis, top_customers,
                   top_products, sales_region, profit_category, summary_stats,
                   sales_state, fig_map, csv>>

\* Line 142 on rows none of which has a date: the Grouper has no first and
\* last month to lay its bins between, and pandas versions differ in whether
\* they return the empty table (SalesTrend) or raise.
SalesTrendError ==
    /\ pc = "sales_time"
    /\ CanRead("sales_time")
    /\ HasColumn(filtered_df, "Order Date")
    /\ AllNaT(filtered_df)
    /\ message' = "ValueError"
    /\ pc' = "error"
    /\ UNCHANGED <<session, df, widgets, filtered_df, kpis, tables, csv>>

\* Line 164.
SalesByRegion ==
    /\ pc = "sales_region"
    /\ CanRead("sales_region")
    /\ sales_region' = GroupSum(filtered_df, "Region", "Sales")
    /\ pc' = "profit_category"
    /\ UNCHANGED <<session, message, df, widgets, filtered_df, kpis, top_customers,
                   top_products, sales_time, profit_category, summary_stats,
                   sales_state, fig_map, csv>>

\* Line 188.
ProfitByCategory ==
    /\ pc = "profit_category"
    /\ CanRead("profit_category")
    /\ profit_category' = GroupSum(filtered_df, "Category", "Profit")
    /\ pc' = "discount"
    /\ UNCHANGED <<session, message, df, widgets, filtered_df, kpis, top_customers,
                   top_products, sales_time, sales_region, summary_stats,
                   sales_state, fig_map, csv>>

\* Lines 213-277: the frame gains the 'Discount Bin' column, and the summary
\* statistics are grouped on it.  Skipped when Discount or Profit is absent.
DiscountAnalysis ==
    /\ pc = "discount"
    /\ IF HasColumn(filtered_df, "Discount") /\ HasColumn(filtered_df, "Profit")
       THEN /\ filtered_df' = AddDiscountBin(filtered_df)
            /\ summary_stats' = SummaryStats(filtered_df')
       ELSE UNCHANGED <<filtered_df, summary_stats>>
    /\ pc' = "map"
    /\ UNCHANGED <<session, message, df, widgets, kpis, top_customers, top_products,
                   sales_time, sales_region, profit_category, sales_state, fig_map, csv>>

\* Lines 285-386.  Without a State column only a warning is shown.
SalesByStateMap ==
    /\ pc = "map"
    /\ CanRead("map")
    /\ IF HasColumn(filtered_df, "State")
       THEN /\ sales_state' = SalesState(filtered_df)
            /\ fig_map' = FigMap(sales_state')
            /\ UNCHANGED message
       ELSE /\ message' = "No 'State' column found"
            /\ UNCHANGED <<sales_state, fig_map>>
    /\ pc' = "download"
    /\ UNCHANGED <<session, df, widgets, filtered_df, kpis, top_customers, top_products,
                   sales_time, sales_region, profit_category, summary_stats, csv>>

\* Lines 393-399.
Download ==
    /\ pc = "download"
    /\ csv' = to_csv(filtered_df)
    /\ pc' = "done"
    /\ UNCHANGED <<session, message, df, widgets, filtered_df, kpis, tables>>

----------------------------------------------------------------------------
\* The user and the environment, between two executions of the script

Idle == pc \in {"done", "stopped", "error"}

\* The uploader was drawn by the last execution: it reached line 29.
UploaderShown ==
    \/ pc \in {"done", "error"}
    \/ pc = "stopped" /\ message = "Error loading uploaded dataset"

\* A new execution starts with the script's variables unassigned.
Restart ==
    /\ pc' = "load_default"
    /\ message' = ""
    /\ df' = EmptyFrame
    /\ regions' = {} /\ categories' = {} /\ sub_categories' = {}
    /\ filtered_df' = EmptyFrame
    /\ total_sales' = 0 /\ total_profit' = 0 /\ total_orders' = 0
    /\ profit_margin' = <<0, 1>>
    /\ top_customers' = {} /\ top_products' = {} /\ sales_time' = {}
    /\ sales_region' = {} /\ profit_category' = {}
    /\ summary_stats' = NoStats
    /\ sales_state' = {} /\ fig_map' = NoFigure
    /\ csv' = NoCsv

\* Any interaction with a widget re-executes the script.
Rerun ==
    /\ Idle
    /\ Restart
    /\ UNCHANGED session

\* The user puts a file into the empty uploader.
UserUploads ==
    /\ Idle
    /\ UploaderShown
    /\ uploaded_file = NoUpload
    /\ uploaded_file' \in UploadedFiles
    /\ Restart
    /\ UNCHANGED <<default_file, selected_state, clicked>>

\* The user takes the file out of the uploader.
UserRemovesFile ==
    /\ Idle
    /\ UploaderShown
    /\ uploaded_file # NoUpload
    /\ uploaded_file' = NoUpload
    /\ Restart
    /\ UNCHANGED <<default_file, selected_state, clicked>>

\* The bundled file appears, disappears or is damaged on disk.
DefaultFileChanges ==
    /\ Idle
    /\ default_file' \in {"missing", "unreadable", "ok"} \ {default_file}
    /\ UNCHANGED <<uploaded_file, selected_state, clicked, pc, message, df, widgets,
                   filtered_df, kpis, tables, csv>>

\* The user clicks a state of the map.  The figure is drawn by st.plotly_chart
\* (line 384), which hands no click back to the script: nothing is stored and
\* nothing is executed.
MapClick ==
    /\ pc = "done"
    /\ clicked' \in fig_map.locations \ {clicked}
    /\ UNCHANGED <<default_file, uploaded_file, selected_state, pc, message, df,
                   widgets, filtered_df, kpis, tables, csv>>

Next ==
    \/ LoadDefault \/ DefaultLoadError \/ DefaultNotFound
    \/ NoUploadedFile \/ LoadUploaded \/ UploadLoadError
    \/ Clean \/ SidebarFilters \/ InitSession \/ Filter \/ KeyError
    \/ KPIs \/ TopCustomers \/ TopProducts \/ SalesTrend \/ SalesTrendError
    \/ SalesByRegion \/ ProfitByCategory \/ DiscountAnalysis \/ SalesByStateMap
    \/ Download
    \/ Rerun \/ UserUploads \/ UserRemovesFile \/ DefaultFileChanges \/ MapClick

Spec == Init /\ [][Next]_vars

----------------------------------------------------------------------------
\* Properties

\* The sections after the filter and up to the discount analysis: filtered_df
\* is the filter's result.
AfterFilter ==
    pc \in {"kpis", "top_customers", "top_products", "sales_time", "sales_region",
            "profit_category", "discount"}
AfterKPIs ==
    pc \in {"top_customers", "top_products", "sales_time", "sales_region",
            "profit_category", "discount", "map", "download", "done"}
AfterSalesTrend ==
    pc \in {"sales_region", "profit_category", "discount", "map", "download", "done"}
AfterSalesByRegion == pc \in {"profit_category", "discount", "map", "download", "done"}
AfterDiscount == pc \in {"map", "download", "done"}
AfterClean ==
    pc \in {"sidebar", "session", "filter"} \/ AfterFilter \/ AfterDiscount

Rows(frame) == SeqToSet(frame.rows)

DrilldownUnset == selected_state \in {"unset", None}

\* The predicate of the filter on one row.
Selected(row) ==
    /\ row["Region"] \in regions
    /\ row["Category"] \in categories
    /\ row["Sub-Category"] \in sub_categories
    /\ (DrilldownUnset \/ row["State"] = selected_state)

\* C1: the filtered dataset has the dataset's columns and exactly the rows of
\* the dataset whose Region, Category and Sub-Category are all selected and,
\* when a drill-down state is set, whose State is it; so it is a subset of the
\* dataset, and it is empty when one of the three selections is empty.
C1_FilterIsConjunction ==
    AfterFilter =>
        /\ filtered_df.columns = df.columns
        /\ Rows(filtered_df) = {row \in Rows(df) : Selected(row)}
        /\ Len(filtered_df.rows) =
               Cardinality({i \in DOMAIN df.rows : Selected(df.rows[i])})
        /\ (regions = {} \/ categories = {} \/ sub_categories = {})
               => filtered_df.rows = <<>>

\* A selection that keeps some rows of the dataset and drops others.
C1_Witness ==
    /\ pc = "kpis"
    /\ filtered_df.rows # <<>>
    /\ Len(filtered_df.rows) < Len(df.rows)
    /\ regions # {} /\ categories # {} /\ sub_categories # {}

\* The full state name an abbreviation of the table stands for.
FullName(abbrev) == CHOOSE n \in DOMAIN state_abbrev : state_abbrev[n] = abbrev
Resolvable(abbrev) == \E n \in DOMAIN state_abbrev : state_abbrev[n] = abbrev

\* C2: once the user has clicked a state of the map whose abbreviation is in
\* the table, the session's drill-down state is that state's full name, and
\* the filtered dataset of every later execution has only rows of that state.
C2_ClickSetsDrilldown ==
    (clicked # None /\ Resolvable(clicked)) =>
        /\ selected_state = FullName(clicked)
        /\ (AfterFilter /\ HasColumn(filtered_df, "State")) =>
               \A row \in Rows(filtered_df) : row["State"] = FullName(clicked)

Supplied == uploaded_file # NoUpload /\ uploaded_file.content # Unreadable

\* C3: an uploaded file is the dataset used whenever one is supplied, whatever
\* the state of the bundled file; the run stops for want of a data source only
\* when there is neither an uploaded file nor the bundled one.
C3_UploadTakesPrecedence ==
    /\ Supplied => pc # "stopped"
    /\ (Supplied /\ pc = "clean") => df = uploaded_file.content
    /\ (pc = "stopped" /\ message = "Default dataset not found")
           => uploaded_file = NoUpload

\* C4: a dataset that lacks one of the required columns never aborts the run.
C4_MissingColumnTolerated ==
    (/\ df # EmptyFrame
     /\ Cardinality(SeqToSet(RequiredColumns) \ SeqToSet(df.columns)) = 1)
        => ~(pc = "error" /\ message = "KeyError")

\* The bin of the half-open intervals [0,10), [10,20), [20,30), [30,40), [40,100].
LowerInclusiveBin(x) ==
    IF x < 0 \/ x > 100 THEN NoBin
    ELSE IF x >= 40 THEN CutLabels[5]
    ELSE CutLabels[CHOOSE i \in 1..4 : CutBins[i] <= x /\ x < CutBins[i + 1]]

RECURSIVE SumCounts(_, _)
SumCounts(stats, labels) ==
    IF labels = {} THEN 0
    ELSE LET l == CHOOSE x \in labels : TRUE
         IN  stats[l].Count + SumCounts(stats, labels \ {l})

\* C5: every Discount in [0,100] percent is put in the bin whose lower edge it
\* reaches (10 in 10-20%, 0 in 0-10%), and every filtered row is counted in
\* the per-bin statistics.
C5_LowerEdgeInclusive ==
    (AfterDiscount /\ HasColumn(filtered_df, "Discount Bin")) =>
        /\ \A row \in Rows(filtered_df) :
               row["Discount Bin"] = LowerInclusiveBin(row["Discount"])
        /\ SumCounts(summary_stats, DOMAIN summary_stats) = Len(filtered_df.rows)

\* The file the execution has loaded.
RawData == IF uploaded_file = NoUpload THEN DefaultData ELSE uploaded_file.content

\* The indices of rows at which no earlier row is equal.
FirstOccurrences(rows) ==
    {i \in DOMAIN rows : \A j \in 1..(i - 1) : rows[j] # rows[i]}

\* kept is the subsequence of rows at the indices of idx.
IsSubSeqAt(kept, rows, idx) ==
    /\ Len(kept) = Cardinality(idx)
    /\ \A i \in idx : kept[Cardinality({k \in idx : k <= i})] = rows[i]

\* C6, as amended: the cleaned dataset is, in order, the first occurrences
\* among the rows as they are after the postal-code fill and the date parsing;
\* a row is dropped if and only if an earlier row equals it in every cleaned
\* cell.
C6_DuplicatesOfCleanedRows ==
    AfterClean =>
        /\ df.columns = RawData.columns
        /\ IsSubSeqAt(df.rows, CleanCells(RawData).rows,
                      FirstOccurrences(CleanCells(RawData).rows))

\* Two rows that differ as loaded and are equal once cleaned: one is dropped.
C6_Witness ==
    /\ pc = "sidebar"
    /\ Len(RawData.rows) = 2
    /\ RawData.rows[1] # RawData.rows[2]
    /\ Len(df.rows) = 1

\* C6 as stated: a row is dropped only if an earlier row equals it in every
\* cell of the raw input.
C6_DuplicatesOfRawRows ==
    AfterClean => Len(df.rows) = Cardinality(FirstOccurrences(RawData.rows))

\* C7: the profit margin is 0 when total sales is 0 and total profit over
\* total sales times 100 otherwise; over no rows all four KPIs are 0.
C7_ProfitMargin ==
    AfterKPIs =>
        /\ total_sales = 0 => profit_margin = <<0, 1>>
        /\ total_sales # 0 =>
               /\ profit_margin[2] # 0
               /\ profit_margin[1] * total_sales = total_profit * 100 * profit_margin[2]
        /\ filtered_df.rows = <<>> =>
               /\ total_sales = 0 /\ total_profit = 0 /\ total_orders = 0
               /\ profit_margin = <<0, 1>>

\* Rows with a profit whose sales sum to 0.
C7_Witness ==
    /\ pc = "top_customers"
    /\ filtered_df.rows # <<>>
    /\ total_sales = 0
    /\ total_profit # 0

RECURSIVE SumTable(_)
SumTable(table) ==
    IF table = {} THEN 0
    ELSE LET t == CHOOSE x \in table : TRUE IN t.v + SumTable(table \ {t})

\* C8: total sales is the sum of the Sales of the table grouped by Region,
\* and that table has exactly one row for each Region of the filtered dataset.
C8_RegionSumsAddUp ==
    AfterSalesByRegion =>
        /\ total_sales = SumTable(sales_region)
        /\ \A r \in unique(filtered_df, "Region") :
               Cardinality({t \in sales_region : t.k = r}) = 1
        /\ \A t \in sales_region : t.k \in unique(filtered_df, "Region")

\* Two regions, one of them with two rows.
C8_Witness ==
    /\ pc = "profit_category"
    /\ Cardinality(sales_region) = 2
    /\ Len(filtered_df.rows) = 3

\* The indices of the rows that have an order date, and their months.
Dated(frame) == {i \in DOMAIN frame.rows : frame.rows[i]["Order Date"] # NaT}
MonthsOf(frame) == {MonthIndex(frame.rows[i]["Order Date"]) : i \in Dated(frame)}

RECURSIVE SalesAt(_, _)
SalesAt(frame, idx) ==
    IF idx = {} THEN 0
    ELSE LET i == CHOOSE x \in idx : TRUE
         IN  frame.rows[i]["Sales"] + SalesAt(frame, idx \ {i})

C10_FilteredDatasetUnchanged ==
    (AfterFilter \/ AfterDiscount) =>
        /\ filtered_df = FilterData(df, regions, categories, sub_categories)
        /\ pc = "done" =>
               /\ csv.header = df.columns
               /\ Len(csv.lines) = Len(filtered_df.rows)

====
